---- MODULE Spec2Model ----
(***************************************************************************)
(* Model of the Bluesky reservoir sampler (scripts/bluesky_scraper.py) and *)
(* of the batched hydration pipeline (scripts/hydrate_data.py).            *)
(*                                                                         *)
(* Three specifications share the variables:                               *)
(*   Spec   one run of reservoir_sample over a stream of events;           *)
(*   SpecG  one call of get_batch, for every retry budget in bounds;       *)
(*   SpecH  one run of hydrate, with get_batch called as hydrate calls it. *)
(*                                                                         *)
(* An optional value (a dict key that may be missing, dict.get giving      *)
(* None) is a sequence of length 0 or 1: <<>> is "missing", <<v>> is v.    *)
(* Delays are integers in tenths of a second.                              *)
(***************************************************************************)
EXTENDS Integers, Sequences, FiniteSets, TLC

VARIABLES
    \* reservoir_sample
    k,          \* requested sample size
    sample,     \* the reservoir: sequence of items
    seen_uris,  \* set of uris already counted
    n,          \* number of qualifying, deduplicated events
    spc,        \* "idle" | "loop" | "returned" | "raised"
    line,       \* source line at which the last loop iteration ended
    \* get_batch
    uris,       \* the uris of the current call
    retries,    \* retry budget of the current call
    attempt,    \* loop variable of get_batch
    gpc,        \* "idle" | "request" | "returned" | "raised"
    result,     \* value returned by get_batch (optional list of uris)
    nreq,       \* session.get calls made by the current call
    nsleep,     \* time.sleep calls made by the current call
    slept,      \* argument of the last time.sleep, <<>> when none yet
    lastresp,   \* the response (or transport failure) of the last request
    nretryable, \* responses so far with a retryable status
    ntransport, \* requests so far that raised requests.RequestException
    \* hydrate
    data,       \* uris of the sample document's items, in order
    i,          \* index into data
    batch,      \* uris collected for the next request
    corpus,     \* posts appended so far
    hydrated,   \* counter of appended posts
    hpc,        \* "idle" | "start" | "loop" | "call_loop" | "call_final" |
                \* "returned" | the name of the exception that ended the run
    requested,  \* the batches handed to get_batch so far, in order
    \* the sampler's clock and its __main__
    now,        \* time.time() - timer_start, in seconds
    duration_s, \* length of the sampling window, in seconds
    doc,        \* the sample document written by the sampler, if any
    \* the enricher's __main__
    total,      \* "total" read from the sample document, if read
    out,        \* the hydrated document written, if any
    reported    \* the number printed as not resolved, if printed

svars == <<k, sample, seen_uris, n, spc, line>>
gvars == <<uris, retries, attempt, gpc, result, nreq, nsleep, slept, lastresp,
           nretryable, ntransport>>
hvars == <<data, i, batch, corpus, hydrated, hpc, requested>>
tvars == <<now, duration_s, doc>>
mvars == <<total, out, reported>>
vars == <<svars, gvars, hvars, tvars, mvars>>

Opt(S) == {<<>>} \cup {<<x>> : x \in S}

Min(a, b) == IF a <= b THEN a ELSE b

RECURSIVE Pow2(_)
Pow2(e) == IF e = 0 THEN 1 ELSE 2 * Pow2(e - 1)

-----------------------------------------------------------------------------
(* Bounds.                                                                 *)

MaxK == 2
MaxStream == 6
MaxRetries == 7
MaxL == 52
MaxDuration == 6
MaxSlack == 1

-----------------------------------------------------------------------------
(* The stream: every shape of event the classifier distinguishes.          *)

Dids == {"did:plc:a", "did:plc:b"}
Collections == {"app.bsky.feed.post"}
Rkeys == {"3k1", "3k2"}
Operations == {"create", "delete"}
Texts == {"", "hello"}
LangLists == {<<"fr">>, <<"en">>}

Records == [text : Opt(Texts), langs : Opt(LangLists)]

Commits ==
    [operation : Operations, collection : Opt(Collections),
     rkey : Opt(Rkeys), record : Opt(Records)]

Events == [did : Opt(Dids), commit : Opt(Commits)]

Elems(s) == {s[j] : j \in 1..Len(s)}

\* uri = "at://" + did + "/" + collection + "/" + rkey
MakeUri(did, collection, rkey) ==
    "at://" \o did \o "/" \o collection \o "/" \o rkey

\* MakeItem that stores the did in place of the uri.
MakeItem_DidAsUri(uri, did, rkey, record) ==
    [uri |-> did, did |-> did, rkey |-> rkey, record |-> record]

\* Lines 96-101: the item kept for a counted event.
MakeItem(uri, did, rkey, record) ==
    [uri |-> uri, did |-> did, rkey |-> rkey, record |-> record]

\* Classify without the check of line 83.
Classify_LangsUnchecked(evt) ==
    IF evt.commit = <<>> THEN "L76"
    ELSE LET commit == evt.commit[1] IN
      IF commit.operation # "create" THEN "L78"
      ELSE IF commit.record = <<>> THEN "L79raise"
      ELSE LET record == commit.record[1] IN
        IF record.text = <<>> \/ record.text = <<"">> THEN "L80"
        ELSE IF record.langs = <<>> THEN "L82"
        ELSE "valid"

\* Lines 69-84: the line at which the validation of evt stops the iteration
\* ("L76" .. "L84" are the continue statements, "L79raise" is record.get on
\* None), or "valid" when the event passes every check.
Classify(evt) ==
    IF evt.commit = <<>> THEN "L76"
    ELSE LET commit == evt.commit[1] IN
      IF commit.operation # "create" THEN "L78"
      ELSE IF commit.record = <<>> THEN "L79raise"
      ELSE LET record == commit.record[1] IN
        IF record.text = <<>> \/ record.text = <<"">> THEN "L80"
        ELSE IF record.langs = <<>> THEN "L82"
        ELSE IF "en" \notin Elems(record.langs[1]) THEN "L84"
        ELSE "valid"

\* Line 90: string concatenation raises TypeError when a part is None.
UriRaises(evt) ==
    \/ evt.did = <<>>
    \/ evt.commit[1].collection = <<>>
    \/ evt.commit[1].rkey = <<>>

UriOf(evt) ==
    MakeUri(evt.did[1], evt.commit[1].collection[1], evt.commit[1].rkey[1])

ItemOf(evt) ==
    MakeItem(UriOf(evt), evt.did[1], evt.commit[1].rkey[1],
             evt.commit[1].record[1])

\* IsDuplicate without the lookup.
IsDuplicate_Never(uri, seen) == FALSE

\* Line 91: uri in seen_uris.
IsDuplicate(uri, seen) == uri \in seen

\* randint(0, n) in place of randint(0, n - 1).
DrawRange_UpToN(nn) == 0..nn

\* random.randint(0, n - 1): both ends inclusive.
DrawRange(nn) == 0..(nn - 1)

\* Place without the capacity test of line 103.
Place_Unbounded(s, kk, nn, item, r) ==
    Append(s, item)

\* Place that shifts the reservoir instead of overwriting slot r.
Place_ShiftIn(s, kk, nn, item, r) ==
    IF Len(s) < kk THEN Append(s, item)
    ELSE IF r < kk THEN Append(Tail(s), item)
    ELSE s

\* Lines 103-108: the reservoir after offering item as the nn-th counted
\* one, r being the integer drawn when the reservoir is full.
Place(s, kk, nn, item, r) ==
    IF Len(s) < kk THEN Append(s, item)
    ELSE IF r < kk THEN [s EXCEPT ![r + 1] = item]
    ELSE s

\* The draws line 106 can make for reservoir s: none while it is filling.
Draws(s, kk, nn) == IF Len(s) < kk THEN {0} ELSE DrawRange(nn)

InitSampler ==
    /\ k \in 0..MaxK
    /\ sample = <<>>
    /\ seen_uris = {}
    /\ n = 0
    /\ spc = "loop"
    /\ line = "L61"

IdleSampler ==
    /\ k = 0
    /\ sample = <<>>
    /\ seen_uris = {}
    /\ n = 0
    /\ spc = "idle"
    /\ line = "L61"

\* Lines 65-67: ws.recv() times out; the loop polls again.
RecvTimeout ==
    /\ spc = "loop"
    /\ line' = "L67"
    /\ UNCHANGED <<k, sample, seen_uris, n, spc>>

\* Lines 69-108: one loop iteration on a received event.
RecvEvent(evt) ==
    /\ spc = "loop"
    /\ LET c == Classify(evt) IN
       IF c = "L79raise"
       THEN /\ spc' = "raised"
            /\ line' = "L79"
            /\ UNCHANGED <<k, sample, seen_uris, n>>
       ELSE IF c # "valid"
       THEN /\ line' = c
            /\ UNCHANGED <<k, sample, seen_uris, n, spc>>
       ELSE IF UriRaises(evt)
       THEN /\ spc' = "raised"
            /\ line' = "L90"
            /\ UNCHANGED <<k, sample, seen_uris, n>>
       ELSE IF IsDuplicate(UriOf(evt), seen_uris)
       THEN /\ line' = "L92"
            /\ UNCHANGED <<k, sample, seen_uris, n, spc>>
       ELSE /\ seen_uris' = seen_uris \cup {UriOf(evt)}
            /\ n' = n + 1
            /\ \E r \in Draws(sample, k, n + 1) :
                 /\ sample' = Place(sample, k, n + 1, ItemOf(evt), r)
                 /\ line' = IF Len(sample) < k THEN "L104"
                            ELSE IF r < k THEN "L108" ELSE "L107"
            /\ UNCHANGED <<k, spc>>

\* Line 61 false, lines 109-111: the window has elapsed; sample is returned.
Expire ==
    /\ spc = "loop"
    /\ spc' = "returned"
    /\ line' = "L111"
    /\ UNCHANGED <<k, sample, seen_uris, n>>

-----------------------------------------------------------------------------
(* reservoir_sample with its clock, and the sampler's __main__.  now is    *)
(* the elapsed time read by the loop test of line 61; processing an event  *)
(* takes no time, a receive takes between 0 and RECV_TIMEOUT seconds.      *)

\* Line 65: asyncio.wait_for(ws.recv(), timeout=5).
RECV_TIMEOUT == 5

\* print_progress line 33: 100 * (iteration / float(total)).
PrintProgressRaises(iteration, tot) == tot = 0

ValidEvents == {evt \in Events : Classify(evt) = "valid" /\ ~UriRaises(evt)}

\* The events of the timed runs: one qualifying create per uri, an event
\* without a commit, and a create commit without a record.
PostEvent(did, rkey, record) ==
    [did |-> <<did>>,
     commit |-> <<[operation |-> "create",
                   collection |-> <<"app.bsky.feed.post">>,
                   rkey |-> <<rkey>>,
                   record |-> record]>>]

TimedEvents ==
    {PostEvent(did, rkey, <<[text |-> <<"hello">>, langs |-> << <<"en">> >>]>>) :
        did \in Dids, rkey \in Rkeys}
    \cup {[did |-> <<"did:plc:a">>, commit |-> <<>>],
          PostEvent("did:plc:a", "3k1", <<>>)}

IdleTimer == now = 0 /\ duration_s = 0 /\ doc = <<>>

\* Lines 53-56 and 119: reservoir_sample is entered with parsed arguments.
InitT ==
    /\ k \in 0..MaxK
    /\ duration_s \in 0..MaxDuration
    /\ sample = <<>>
    /\ seen_uris = {}
    /\ n = 0
    /\ spc = "start"
    /\ line = "L56"
    /\ now = 0
    /\ doc = <<>>

\* Line 58: print_progress(0, duration_s, ...), then the connection opens.
TStart ==
    /\ spc = "start"
    /\ IF PrintProgressRaises(0, duration_s)
       THEN spc' = "raised" /\ line' = "L58"
       ELSE spc' = "loop" /\ line' = "L61"
    /\ UNCHANGED <<k, sample, seen_uris, n, tvars>>

\* Lines 61-67: the loop test passes and the receive times out.
TRecvTimeout ==
    /\ now < duration_s
    /\ RecvTimeout
    /\ now' = now + RECV_TIMEOUT
    /\ UNCHANGED <<duration_s, doc>>

\* Lines 61-108: the loop test passes and an event arrives after d seconds.
TRecvEvent(evt, d) ==
    /\ now < duration_s
    /\ RecvEvent(evt)
    /\ now' = now + d
    /\ UNCHANGED <<duration_s, doc>>

\* Line 65: ws.recv() raises because the connection is closed; nothing in
\* reservoir_sample or __main__ catches it.
TDisconnect(d) ==
    /\ spc = "loop"
    /\ now < duration_s
    /\ spc' = "raised"
    /\ line' = "L65"
    /\ now' = now + d
    /\ UNCHANGED <<k, sample, seen_uris, n, duration_s, doc>>

\* Lines 61, 109-111: the loop test fails and the reservoir is returned.
TExpire ==
    /\ ~(now < duration_s)
    /\ Expire
    /\ UNCHANGED tvars

\* Lines 119-122: the returned reservoir is written with the requested size.
SamplerMain ==
    /\ spc = "returned"
    /\ spc' = "written"
    /\ doc' = <<[total |-> k, data |-> sample]>>
    /\ UNCHANGED <<k, sample, seen_uris, n, line, now, duration_s>>

-----------------------------------------------------------------------------
(* Algorithm R over all draw sequences.  A distribution maps each          *)
(* reservoir to the number of draw sequences that produce it; the events   *)
(* are named by their arrival position 1..N.                               *)

RECURSIVE SumF(_, _)
SumF(f, S) ==
    IF S = {} THEN 0
    ELSE LET x == CHOOSE y \in S : TRUE IN f[x] + SumF(f, S \ {x})

StepDist(d, kk, nn) ==
    LET src == DOMAIN d
        tgt == UNION {{Place(s, kk, nn, nn, r) : r \in Draws(s, kk, nn)} : s \in src}
    IN [t \in tgt |->
          SumF([s \in src |->
                  d[s] * Cardinality({r \in Draws(s, kk, nn) :
                                        Place(s, kk, nn, nn, r) = t})], src)]

RECURSIVE DistAfter(_, _)
DistAfter(kk, N) ==
    IF N = 0 THEN (<<>> :> 1) ELSE StepDist(DistAfter(kk, N - 1), kk, N)

TotalCount(d) == SumF(d, DOMAIN d)

InclusionCount(d, it) ==
    SumF([s \in DOMAIN d |-> IF it \in Elems(s) THEN d[s] ELSE 0], DOMAIN d)

\* Every one of the N events is in the final sample in k/N of the runs.
UniformAfter(kk, N) ==
    LET d == DistAfter(kk, N) IN
    \A it \in 1..N : N * InclusionCount(d, it) = kk * TotalCount(d)

UniformTable ==
    [kk \in 1..MaxK |-> [N \in kk..MaxStream |-> UniformAfter(kk, N)]]

-----------------------------------------------------------------------------
(* Claims about reservoir_sample.                                          *)

SamplerUnchanged == UNCHANGED <<n, sample, seen_uris, spc>>

\* C1: capacity invariant -- len(sample) <= k after every iteration and
\* len(sample) = min(n, k), for every k >= 0 and every stream.
C1_Capacity == Len(sample) <= k /\ Len(sample) = Min(n, k)

C1_Witness == k >= 1 /\ n >= k + 2 /\ Len(sample) = k /\ line = "L108"

\* C2: uniformity -- after n >= k >= 1 distinct qualifying events, over all
\* equally likely draw sequences each event is in the sample in exactly
\* k/n of them, whatever its arrival position.
C2_Uniform ==
    (k >= 1 /\ n >= k) => \A N \in n..MaxStream : UniformTable[k][N]

C2_Witness == k >= 2 /\ n >= k + 2 /\ line = "L107"

\* C3: dedup -- a qualifying event whose uri was already seen leaves n,
\* sample and seen_uris unchanged; n grows only on a first-seen uri.
C3_Dedup ==
    [][/\ SamplerUnchanged
          \/ \A evt \in ValidEvents :
               UriOf(evt) \in seen_uris => ~RecvEvent(evt)
       /\ n' # n =>
            \E evt \in ValidEvents :
               /\ UriOf(evt) \notin seen_uris
               /\ seen_uris' = seen_uris \cup {UriOf(evt)}
               /\ n' = n + 1]_vars

C3_Witness == line = "L92" /\ n >= 2 /\ spc = "loop"

\* The events C4 names as rejected: no commit, an operation other than
\* create, a record whose text is absent or empty, a record whose langs are
\* absent or lack "en".
ClaimRejects(evt) ==
    \/ evt.commit = <<>>
    \/ /\ evt.commit # <<>>
       /\ \/ evt.commit[1].operation # "create"
          \/ /\ evt.commit[1].record # <<>>
             /\ LET record == evt.commit[1].record[1] IN
                \/ record.text = <<>>
                \/ record.text = <<"">>
                \/ record.langs = <<>>
                \/ "en" \notin Elems(record.langs[1])

ItemQualifies(item) ==
    /\ item.record.text \notin {<<>>, <<"">>}
    /\ item.record.langs # <<>>
    /\ "en" \in Elems(item.record.langs[1])

\* C4: classifier rejection -- a rejected event changes nothing, and every
\* item in the sample has non-empty text and langs containing "en", put
\* there by a create event that passed the checks.
C4_Rejection ==
    /\ [][/\ SamplerUnchanged
             \/ \A evt \in Events : ClaimRejects(evt) => ~RecvEvent(evt)
          /\ sample' # sample =>
               \E evt \in Events :
                  /\ ~ClaimRejects(evt)
                  /\ evt.commit[1].operation = "create"
                  /\ RecvEvent(evt)
                  /\ ItemOf(evt) \in Elems(sample')]_vars
    /\ [](\A j \in 1..Len(sample) : ItemQualifies(sample[j]))

C4_Witness == line = "L84" /\ n >= 1 /\ Len(sample) >= 1

\* C5: a malformed event (a missing commit, record, text, langs, did,
\* collection or rkey) is rejected and never makes the sampler raise.
C5_NeverRaises == spc # "raised"

\* C16: Algorithm R step -- a first-seen qualifying event increments n;
\* while len(sample) < k its item is appended and no slot changes;
\* otherwise either exactly one slot r < k now holds the item and every
\* other slot is unchanged, or the whole sample is unchanged.
C16_AlgorithmRStep ==
    [][n' # n =>
         \E evt \in ValidEvents :
            /\ UriOf(evt) \notin seen_uris
            /\ n' = n + 1
            /\ IF Len(sample) < k
               THEN /\ sample' = Append(sample, ItemOf(evt))
                    /\ line' = "L104"
               ELSE \E r \in 0..(n' - 1) :
                      IF r < k
                      THEN /\ Len(sample') = Len(sample)
                           /\ sample'[r + 1] = ItemOf(evt)
                           /\ \A j \in 1..Len(sample) :
                                 j # r + 1 => sample'[j] = sample[j]
                           /\ line' = "L108"
                      ELSE /\ sample' = sample
                           /\ line' = "L107"]_vars

C16_Witness ==
    /\ k = 2
    /\ n = 4
    /\ line = "L108"
    /\ sample[1].uri # sample[2].uri

SampleUris == {sample[j].uri : j \in 1..Len(sample)}

\* C13: the elapsed time is checked before every receive, so the loop is
\* never past the deadline by more than one receive timeout, and the run
\* then always returns the current reservoir: it does not end by raising
\* (the closed connection of C14 apart).
C13_TimeBoxed ==
    /\ spc = "loop" => now < duration_s + RECV_TIMEOUT
    /\ spc \in {"returned", "written"} =>
          /\ ~(now < duration_s)
          /\ now < duration_s + RECV_TIMEOUT
    /\ spc = "raised" => line = "L65"

\* C14: when the connection fails in the middle of a run, a sample
\* document holding the items of the reservoir at that moment is written.
C14_DisconnectEmits ==
    (spc = "raised" /\ line = "L65") =>
        (doc # <<>> /\ doc[1].data = sample)

\* C20: reservoir state consistency -- the size of seen_uris equals n, n
\* never decreases, every item in sample has its uri in seen_uris, and the
\* uris of the items in sample are pairwise distinct.
C20_Consistency ==
    /\ [](/\ Cardinality(seen_uris) = n
          /\ SampleUris \subseteq seen_uris
          /\ Cardinality(SampleUris) = Len(sample))
    /\ [][n' >= n]_vars

C20_Witness ==
    /\ k = 2
    /\ n = 4
    /\ Len(sample) = 2
    /\ Cardinality(seen_uris) = 4
    /\ spc = "returned"

-----------------------------------------------------------------------------
(* get_batch (scripts/hydrate_data.py).                                    *)

BATCH_SIZE == 25
DefaultRetries == 4
\* base_backoff = 0.8 s and the 30.0 s cap, in tenths of a second.
BaseBackoff == 8
MaxWait == 300

OkStatus == 200
RetryableStatuses == {429, 500, 502, 503, 504}
Statuses == {200, 404} \cup RetryableStatuses

\* Values of the Retry-After header: empty, delay-seconds, or an HTTP-date.
HttpDate == "Wed, 21 Oct 2015 07:28:00 GMT"
RetryAfterValues == {"", "2", "120", HttpDate}

\* Bodies of a 200 response: every requested post, all but the first (a
\* post the API no longer has), none, or a body without the "posts" key.
Bodies == {"all", "some", "none", "nokey"}

\* What get_batch reads of one session.get: a transport failure, or a
\* status with the Retry-After header (read for retryable statuses only)
\* and the body (read for 200 only).
Responses ==
    {[kind |-> "exc", status |-> 0, retry_after |-> <<>>, body |-> "none"]}
    \cup {[kind |-> "http", status |-> 200, retry_after |-> <<>>, body |-> b] :
            b \in Bodies}
    \cup {[kind |-> "http", status |-> 404, retry_after |-> <<>>, body |-> "none"]}
    \cup {[kind |-> "http", status |-> st, retry_after |-> h, body |-> "none"] :
            st \in RetryableStatuses, h \in Opt(RetryAfterValues)}

\* IsRetryable with 404 taken as worth retrying.
IsRetryable_With404(status) == status \in RetryableStatuses \cup {404}

\* Line 42: resp.status_code in (429, 500, 502, 503, 504).
IsRetryable(status) == status \in RetryableStatuses

\* Line 45: float(retry_after) raises ValueError unless the string is a number.
FloatRaises(str) == str \notin {"2", "120"}

\* float(retry_after), in tenths of a second.
FloatOf(str) == IF str = "2" THEN 20 ELSE 1200

\* Line 44: a missing header (None) and the empty string are falsy.
Truthy(h) == h # <<>> /\ h # <<"">>

\* Backoff growing by base_backoff per attempt instead of doubling.
Backoff_Linear(a) == BaseBackoff * (a + 1)

\* Lines 47, 58: base_backoff * (2 ** attempt).
Backoff(a) == BaseBackoff * Pow2(a)

\* Lines 38-39: data.get("posts"); a post is named by its uri.
PostsOf(body, us) ==
    IF body = "all" THEN <<us>>
    ELSE IF body = "some" THEN <<Tail(us)>>
    ELSE IF body = "none" THEN << <<>> >>
    ELSE <<>>

\* Lines 33-60: what one pass of the loop body does on response resp:
\* pc "request" is continue (after time.sleep(sleep[1])), "returned" is a
\* return of ret, "raised" is the uncaught ValueError of float().
AttemptOutcome(resp, a, rt, us) ==
    IF resp.kind = "exc"
    THEN IF a < rt
         THEN [pc |-> "request", sleep |-> <<Min(Backoff(a), MaxWait)>>, ret |-> <<>>]
         ELSE [pc |-> "returned", sleep |-> <<>>, ret |-> << <<>> >>]
    ELSE IF resp.status = OkStatus
    THEN [pc |-> "returned", sleep |-> <<>>, ret |-> PostsOf(resp.body, us)]
    ELSE IF IsRetryable(resp.status)
    THEN IF Truthy(resp.retry_after) /\ FloatRaises(resp.retry_after[1])
         THEN [pc |-> "raised", sleep |-> <<>>, ret |-> <<>>]
         ELSE LET sleep_s == IF Truthy(resp.retry_after)
                             THEN FloatOf(resp.retry_after[1])
                             ELSE Backoff(a)
              IN IF a < rt
                 THEN [pc |-> "request", sleep |-> <<Min(sleep_s, MaxWait)>>,
                       ret |-> <<>>]
                 ELSE [pc |-> "returned", sleep |-> <<>>, ret |-> << <<>> >>]
    ELSE [pc |-> "returned", sleep |-> <<>>, ret |-> << <<>> >>]

\* Lines 31-32: entry of get_batch(session, us, retries = rt).
EnterGetBatch(us, rt) ==
    /\ uris' = us
    /\ retries' = rt
    /\ attempt' = 0
    /\ gpc' = "request"
    /\ result' = <<>>
    /\ nreq' = 0
    /\ nsleep' = 0
    /\ slept' = <<>>
    /\ lastresp' = <<>>
    /\ nretryable' = 0
    /\ ntransport' = 0

\* Lines 32-60: one pass of the retry loop, the endpoint answering resp.
GetBatchAttempt(resp) ==
    /\ gpc = "request"
    /\ LET o == AttemptOutcome(resp, attempt, retries, uris) IN
       /\ gpc' = o.pc
       /\ result' = o.ret
       /\ attempt' = IF o.pc = "request" THEN attempt + 1 ELSE attempt
       /\ nsleep' = IF o.sleep # <<>> THEN nsleep + 1 ELSE nsleep
       /\ slept' = IF o.sleep # <<>> THEN o.sleep ELSE slept
    /\ nreq' = nreq + 1
    /\ lastresp' = <<resp>>
    /\ nretryable' = IF resp.kind = "http" /\ resp.status \in RetryableStatuses
                     THEN nretryable + 1 ELSE nretryable
    /\ ntransport' = IF resp.kind = "exc" THEN ntransport + 1 ELSE ntransport
    /\ UNCHANGED <<uris, retries>>

IdleGetBatch ==
    /\ uris = <<>> /\ retries = 0 /\ attempt = 0 /\ gpc = "idle"
    /\ result = <<>> /\ nreq = 0 /\ nsleep = 0 /\ slept = <<>>
    /\ lastresp = <<>> /\ nretryable = 0 /\ ntransport = 0

\* A call get_batch(session, uris, retries) about to make its first request.
InitGetBatch ==
    /\ uris \in {<<1>>, <<1, 2, 3>>}
    /\ retries \in 0..MaxRetries
    /\ attempt = 0 /\ gpc = "request"
    /\ result = <<>> /\ nreq = 0 /\ nsleep = 0 /\ slept = <<>>
    /\ lastresp = <<>> /\ nretryable = 0 /\ ntransport = 0

-----------------------------------------------------------------------------
(* hydrate (scripts/hydrate_data.py).                                      *)

\* The lengths of the sample document's data list that are explored.
ExampleLen == 4 * BATCH_SIZE + 3
Lengths == (0..MaxL) \cup {ExampleLen}


IdleHydrate ==
    /\ data = <<>> /\ i = 0 /\ batch = <<>> /\ corpus = <<>>
    /\ hydrated = 0 /\ hpc = "idle" /\ requested = <<>>

\* Lines 67-75: the sample document is loaded; uris are 1..L in order.
InitHydrate ==
    /\ \E L \in Lengths : data = [j \in 1..L |-> j]
    /\ i = 0
    /\ batch = <<>>
    /\ corpus = <<>>
    /\ hydrated = 0
    /\ hpc = "start"
    /\ requested = <<>>

\* Line 76: print_progress(i, len(data) - 1, ...).
HydrateStart ==
    /\ hpc = "start"
    /\ hpc' = IF PrintProgressRaises(i, Len(data) - 1)
              THEN "ZeroDivisionError" ELSE "loop"
    /\ UNCHANGED <<data, i, batch, corpus, hydrated, requested, gvars>>

\* Lines 77-81: the batch is not full; take the next uri.
HydrateCollect ==
    /\ hpc = "loop"
    /\ i < Len(data)
    /\ Len(batch) < BATCH_SIZE
    /\ batch' = Append(batch, data[i + 1])
    /\ i' = i + 1
    /\ UNCHANGED <<data, corpus, hydrated, hpc, requested, gvars>>

\* Lines 77-82: the batch is full and items remain; call get_batch.
HydrateCallLoop ==
    /\ hpc = "loop"
    /\ i < Len(data)
    /\ ~(Len(batch) < BATCH_SIZE)
    /\ EnterGetBatch(batch, DefaultRetries)
    /\ requested' = Append(requested, batch)
    /\ hpc' = "call_loop"
    /\ UNCHANGED <<data, i, batch, corpus, hydrated>>

\* Lines 77, 102-104, 120: the loop is over; a last call if batch is left.
HydrateLoopExit ==
    /\ hpc = "loop"
    /\ ~(i < Len(data))
    /\ IF batch # <<>>
       THEN /\ EnterGetBatch(batch, DefaultRetries)
            /\ requested' = Append(requested, batch)
            /\ hpc' = "call_final"
       ELSE /\ hpc' = "returned"
            /\ UNCHANGED <<requested, gvars>>
    /\ UNCHANGED <<data, i, batch, corpus, hydrated>>

\* assert(r): fails on None and on the empty list.
AssertFails(r) == r = <<>> \/ r = << <<>> >>

\* Lines 82-100 and 104-120 after get_batch has ended: its exception
\* propagates, assert(r) fails, or every post of r is appended and the
\* progress bar is printed.
HydrateResume ==
    /\ hpc \in {"call_loop", "call_final"}
    /\ gpc \in {"returned", "raised"}
    /\ IF gpc = "raised"
       THEN /\ hpc' = "ValueError"
            /\ UNCHANGED <<batch, corpus, hydrated, gvars>>
       ELSE IF AssertFails(result)
       THEN /\ hpc' = "AssertionError"
            /\ UNCHANGED <<batch, corpus, hydrated, gvars>>
       ELSE /\ corpus' = corpus \o result[1]
            /\ hydrated' = hydrated + Len(result[1])
            /\ IF hpc = "call_loop"
               THEN /\ batch' = <<>>
                    /\ hpc' = IF PrintProgressRaises(i, Len(data) - 1)
                              THEN "ZeroDivisionError" ELSE "loop"
               ELSE /\ batch' = batch
                    /\ hpc' = IF PrintProgressRaises(Len(data), Len(data))
                              THEN "ZeroDivisionError" ELSE "returned"
            /\ uris' = <<>> /\ retries' = 0 /\ attempt' = 0 /\ gpc' = "idle"
            /\ result' = <<>> /\ nreq' = 0 /\ nsleep' = 0 /\ slept' = <<>>
            /\ lastresp' = <<>> /\ nretryable' = 0 /\ ntransport' = 0
    /\ UNCHANGED <<data, i, requested>>

IdleMain == total = <<>> /\ out = <<>> /\ reported = <<>>

\* The "total" of a sample document whose data holds L items: the sampler
\* writes total = k and at most k items.
Totals(L) == L..(L + MaxSlack)

\* Lines 122-132: the hydrated document is written with total = hydrated,
\* the sample document's total is read again, and total - hydrated is
\* printed when it is positive.
HydrateMain ==
    /\ hpc = "returned"
    /\ hpc' = "written"
    /\ out' = <<[total |-> hydrated, data |-> corpus]>>
    /\ \E t \in Totals(Len(data)) :
          /\ total' = <<t>>
          /\ reported' = IF (t - hydrated) > 0 THEN <<t - hydrated>> ELSE <<>>
    /\ UNCHANGED <<data, i, batch, corpus, hydrated, requested, gvars>>

-----------------------------------------------------------------------------
(* Claims about hydrate and get_batch.                                     *)

HydrateEnded == hpc \notin {"idle", "start", "loop", "call_loop", "call_final"}

\* C6: an empty result of get_batch (retries exhausted, or a non-retryable
\* status) only drops that batch: hydrate does not abort on it.
C6_EmptyBatchDropped ==
    ~(/\ hpc = "AssertionError"
      /\ result = << <<>> >>
      /\ lastresp[1].status # OkStatus)

RECURSIVE Flatten(_)
Flatten(ss) == IF ss = <<>> THEN <<>> ELSE Head(ss) \o Flatten(Tail(ss))

CeilDiv(a, b) == (a + b - 1) \div b

\* C7: when hydrate has ended, get_batch was called on exactly
\* ceil(L / 25) batches, each of 25 uris except a smaller non-empty last
\* one, and the batches in request order concatenate to the input uris.
C7_Partition ==
    HydrateEnded =>
        /\ Len(requested) = CeilDiv(Len(data), BATCH_SIZE)
        /\ \A b \in 1..Len(requested) :
              /\ requested[b] # <<>>
              /\ Len(requested[b]) <= BATCH_SIZE
              /\ b < Len(requested) => Len(requested[b]) = BATCH_SIZE
        /\ Flatten(requested) = data

\* C8: after j <= retries responses that all carry a retryable status
\* get_batch goes on to request j + 1, and a 200 response ends the call at
\* once with the posts of that response, after exactly j + 1 requests.
C8_RetryUntilSuccess ==
    /\ (nretryable = nreq /\ nreq <= retries) =>
          (gpc = "request" /\ attempt = nreq)
    /\ (lastresp # <<>> /\ lastresp[1].status = OkStatus) =>
          /\ gpc = "returned"
          /\ result = PostsOf(lastresp[1].body, uris)
          /\ ntransport = 0 => nreq = nretryable + 1

NonRetryableResp(resp) ==
    /\ resp.kind = "http"
    /\ resp.status # 200
    /\ resp.status \notin {429, 500, 502, 503, 504}

\* C9: a response whose status is neither 200 nor retryable ends the call
\* at once with an empty result: no sleep, no further request (exactly one
\* request when it is the first response).
C9_NonRetryable ==
    [][/\ (nreq' # nreq /\ NonRetryableResp(lastresp'[1])) =>
             /\ gpc' = "returned"
             /\ result' = << <<>> >>
             /\ nsleep' = nsleep
             /\ nreq' = nreq + 1
             /\ nreq' = attempt + 1
       /\ gpc = "returned" => (nreq' = nreq /\ nsleep' = nsleep)]_vars

C9_Witness ==
    /\ gpc = "returned"
    /\ lastresp # <<>>
    /\ lastresp[1].status = 404
    /\ nreq = 3
    /\ nsleep = 2
    /\ result = << <<>> >>

\* C10: while every response is a retryable status or a transport failure,
\* get_batch never raises, sleeps once after each request but the last,
\* and returns an empty result after exactly retries + 1 requests.
C10_Exhaustion ==
    (nretryable + ntransport = nreq) =>
        /\ gpc # "raised"
        /\ gpc = "request" =>
              (attempt = nreq /\ nreq <= retries /\ nsleep = nreq)
        /\ gpc = "returned" =>
              (nreq = retries + 1 /\ nsleep = retries /\ result = << <<>> >>)

\* The wait C12 states for the retry after failed attempt a: the server's
\* Retry-After when the response carries a delay, else 0.8 s * 2^a.
ClaimedDelay(resp, a) ==
    IF resp.kind = "http" /\ resp.retry_after = <<"2">> THEN 20
    ELSE IF resp.kind = "http" /\ resp.retry_after = <<"120">> THEN 1200
    ELSE 8 * Pow2(a)

\* C12: backoff schedule -- every wait follows a failed attempt a < retries
\* and lasts min(d, 30 s), d being the server's Retry-After delay when the
\* response carries one and base_backoff * 2^a otherwise; no wait exceeds
\* 30 s, and every retry is preceded by exactly one wait.
C12_Backoff ==
    [][/\ nsleep' # nsleep =>
            /\ nsleep' = nsleep + 1
            /\ attempt < retries
            /\ attempt' = attempt + 1
            /\ slept' = <<Min(ClaimedDelay(lastresp'[1], attempt), 300)>>
            /\ slept'[1] <= 300
       /\ (nreq' # nreq /\ gpc' = "request") => nsleep' = nsleep + 1]_vars

C12_Witness ==
    /\ gpc = "request"
    /\ attempt = 7
    /\ nsleep = 7
    /\ ntransport = 7
    /\ slept = <<300>>

\* C11: a run in which a batch failed permanently still completes, and
\* the hydrated document's total equals the number of resolved posts and
\* the length of its data, the reported discrepancy being the sample
\* document's total minus that count.
C11_LossAccounting ==
    /\ hpc = "written" =>
          /\ out[1].total = hydrated
          /\ out[1].total = Len(out[1].data)
          /\ reported = IF total[1] - hydrated > 0
                        THEN <<total[1] - hydrated>> ELSE <<>>
    /\ (/\ HydrateEnded
        /\ gpc = "returned"
        /\ result = << <<>> >>
        /\ lastresp[1].status # OkStatus) => hpc \in {"returned", "written"}

\* C17: a 200 response that holds any subset of the requested posts, none
\* of them included, is no error: hydrate does not abort on it.
C17_MissingPostsTolerated ==
    ~(/\ hpc = "AssertionError"
      /\ lastresp[1].status = OkStatus
      /\ lastresp[1].body = "none")

\* C18: the number reported at the end as not resolved equals the number
\* of items of the sample document's data that did not resolve to a post,
\* also when data holds fewer than total items.
C18_ReportedLoss ==
    hpc = "written" =>
        reported = IF Len(data) - Len(corpus) > 0
                   THEN <<Len(data) - Len(corpus)>> ELSE <<>>

\* C19: hydrate never raises in its progress computation, whatever the
\* number of items of the sample document (0 and 1 included).
C19_UnderFilledRuns == hpc # "ZeroDivisionError"

-----------------------------------------------------------------------------
(* Specifications.                                                         *)

Init == InitSampler /\ IdleGetBatch /\ IdleHydrate /\ IdleTimer /\ IdleMain

Next ==
    \/ RecvTimeout /\ UNCHANGED <<gvars, hvars, tvars, mvars>>
    \/ (\E evt \in Events : RecvEvent(evt))
          /\ UNCHANGED <<gvars, hvars, tvars, mvars>>
    \/ Expire /\ UNCHANGED <<gvars, hvars, tvars, mvars>>

Spec == Init /\ [][Next]_vars

InitG == IdleSampler /\ InitGetBatch /\ IdleHydrate /\ IdleTimer /\ IdleMain

NextG ==
    (\E resp \in Responses : GetBatchAttempt(resp))
       /\ UNCHANGED <<svars, hvars, tvars, mvars>>

SpecG == InitG /\ [][NextG]_vars

InitH == IdleSampler /\ IdleGetBatch /\ InitHydrate /\ IdleTimer /\ IdleMain

NextH ==
    \/ HydrateStart /\ UNCHANGED <<svars, tvars, mvars>>
    \/ HydrateCollect /\ UNCHANGED <<svars, tvars, mvars>>
    \/ HydrateCallLoop /\ UNCHANGED <<svars, tvars, mvars>>
    \/ HydrateLoopExit /\ UNCHANGED <<svars, tvars, mvars>>
    \/ (\E resp \in Responses : GetBatchAttempt(resp))
          /\ UNCHANGED <<svars, hvars, tvars, mvars>>
    \/ HydrateResume /\ UNCHANGED <<svars, tvars, mvars>>
    \/ HydrateMain /\ UNCHANGED <<svars, tvars>>

SpecH == InitH /\ [][NextH]_vars

InitTimed == InitT /\ IdleGetBatch /\ IdleHydrate /\ IdleMain

NextT ==
    \/ TStart /\ UNCHANGED <<gvars, hvars, mvars>>
    \/ TRecvTimeout /\ UNCHANGED <<gvars, hvars, mvars>>
    \/ (\E evt \in TimedEvents, d \in 0..RECV_TIMEOUT : TRecvEvent(evt, d))
          /\ UNCHANGED <<gvars, hvars, mvars>>
    \/ (\E d \in 0..RECV_TIMEOUT : TDisconnect(d))
          /\ UNCHANGED <<gvars, hvars, mvars>>
    \/ TExpire /\ UNCHANGED <<gvars, hvars, mvars>>
    \/ SamplerMain /\ UNCHANGED <<gvars, hvars, mvars>>

SpecT == InitTimed /\ [][NextT]_vars

====
